---- MODULE Spec2Model ----
(***************************************************************************)
(* Model of backend/app.py: the Flask request handlers chart_data,         *)
(* company_analysis, batch_analysis, get_news, company_analysis_full and   *)
(* health_check, with the three external collaborators                     *)
(* (fetch_and_compute_credit_scores, get_score_breakdown_data,             *)
(* top_headlines) as nondeterministic calls that return or raise.          *)
(* One request is handled at a time: the handlers keep no state across     *)
(* requests.  Strings are sequences of characters, so that upper() and     *)
(* strip() are computed and not assumed.                                   *)
(***************************************************************************)
EXTENDS Integers, Sequences, FiniteSets, TLC

(* ---------------- bounds of the model ---------------- *)
\* longest freely enumerated raw 'tickers' list
MaxShort == 3
\* how far past the batch cap the padded raw lists go
MaxOver == 1
\* longest headline list the news collaborator returns
MaxHeadlines == 2

(* ---------------- program constants ---------------- *)
MaxBatch == 10
DefaultCount == 3
MinCount == 1
MaxCount == 10
FullCount == 5

(* ---------------- strings ---------------- *)
UpperChar(c) == IF c = "a" THEN "A" ELSE IF c = "m" THEN "M" ELSE c

\* str.upper()
Upper(s) == [i \in DOMAIN s |-> UpperChar(s[i])]

RECURSIVE LStrip(_)
LStrip(s) == IF s # <<>> /\ Head(s) = " " THEN LStrip(Tail(s)) ELSE s

RECURSIVE RStrip(_)
RStrip(s) ==
    IF s # <<>> /\ s[Len(s)] = " " THEN RStrip(SubSeq(s, 1, Len(s) - 1)) ELSE s

\* str.strip()
Strip(s) == RStrip(LStrip(s))

\* Python truthiness of a str
Truthy(s) == s # <<>>

(* ---------------- inputs ---------------- *)
RawStrings == { <<>>, <<" ">>, <<"a">>, <<"A">>, <<" ", "m", " ">> }

PathTickers == { <<"a">>, <<"A">>, <<"m">> }

RECURSIVE Rep(_, _)
Rep(s, k) == IF k <= 0 THEN <<>> ELSE <<s>> \o Rep(s, k - 1)

SeqsUpTo(S, k) == UNION { [1..m -> S] : m \in 0..k }

ShortLists == SeqsUpTo(RawStrings, MaxShort)

\* lists around the batch cap: an arbitrary first entry, then padding
LongLists ==
    { p \o Rep(s, m - Len(p)) :
        p \in SeqsUpTo(RawStrings, 1), s \in RawStrings,
        m \in MaxBatch..(MaxBatch + MaxOver) }

RawLists == ShortLists \cup LongLists

\* what request.get_json() yields: it raises, or returns None, or {}, or an
\* object (with other keys) with or without the key 'tickers'
JsonBodies ==
    { [kind |-> "malformed", has |-> FALSE, tickers |-> <<>>],
      [kind |-> "null", has |-> FALSE, tickers |-> <<>>],
      [kind |-> "empty", has |-> FALSE, tickers |-> <<>>],
      [kind |-> "object", has |-> FALSE, tickers |-> <<>>] }
    \cup { [kind |-> "object", has |-> TRUE, tickers |-> l] : l \in RawLists }

NoJson == [kind |-> "null", has |-> FALSE, tickers |-> <<>>]

\* the integers a client sends as the query argument 'count'
CountValues == { -5, -1, 0, 1, 3, 9, 10, 11, 50 }

DigitChar(d) ==
    CASE d = 0 -> "0" [] d = 1 -> "1" [] d = 2 -> "2" [] d = 3 -> "3"
      [] d = 4 -> "4" [] d = 5 -> "5" [] d = 6 -> "6" [] d = 7 -> "7"
      [] d = 8 -> "8" [] d = 9 -> "9"

RECURSIVE NatText(_)
NatText(k) ==
    IF k < 10 THEN <<DigitChar(k)>>
    ELSE NatText(k \div 10) \o <<DigitChar(k % 10)>>

\* the decimal text of an integer, as it stands in the query string
IntText(c) == IF c < 0 THEN <<"-">> \o NatText(0 - c) ELSE NatText(c)

\* the text of the query argument 'count'; <<>> stands for an absent argument
CountTexts == { <<>>, <<"x">> } \cup { IntText(c) : c \in CountValues }

(* ---------------- collaborators' outcomes ---------------- *)
ExcTexts == { "e1", "e2" }
Scores == { "s1", "s2" }
TickerUniverse == { <<"A">>, <<"M">> }
ScoreMappings == UNION { [K -> Scores] : K \in SUBSET TickerUniverse }
Breakdowns == { [categories |-> "w1"], [categories |-> "w2"] }
HeadlineLists == SeqsUpTo({ "h1" }, MaxHeadlines)

VARIABLES pc, req, ticker, tickers, n, credit_results, breakdown_data,
          headlines, calls, resp, prev

vars == << pc, req, ticker, tickers, n, credit_results, breakdown_data,
           headlines, calls, resp, prev >>

NoResp == [status |-> 0, body |-> [pending |-> TRUE]]
NoBreakdown == [categories |-> "unset"]
EmptyMap == [t \in {} |-> "s1"]


(* ---------------- request.args.get('count', default=3, type=int) ------- *)
Digits == { "0", "1", "2", "3", "4", "5", "6", "7", "8", "9" }

DigitVal(c) ==
    CASE c = "0" -> 0 [] c = "1" -> 1 [] c = "2" -> 2 [] c = "3" -> 3
      [] c = "4" -> 4 [] c = "5" -> 5 [] c = "6" -> 6 [] c = "7" -> 7
      [] c = "8" -> 8 [] c = "9" -> 9

AllDigits(s) == s # <<>> /\ \A i \in DOMAIN s : s[i] \in Digits

\* int(text) succeeds
IsIntText(s) ==
    \/ AllDigits(s)
    \/ s # <<>> /\ Head(s) = "-" /\ AllDigits(Tail(s))

RECURSIVE NatOf(_)
NatOf(s) ==
    IF s = <<>> THEN 0
    ELSE 10 * NatOf(SubSeq(s, 1, Len(s) - 1)) + DigitVal(s[Len(s)])

\* int(text)
IntOf(s) == IF Head(s) = "-" THEN 0 - NatOf(Tail(s)) ELSE NatOf(s)

\* the argument is absent, or int() raises ValueError: the default is used
CountArg(text) == IF IsIntText(text) THEN IntOf(text) ELSE DefaultCount

Min(a, b) == IF a < b THEN a ELSE b
Max(a, b) == IF a > b THEN a ELSE b

ClampCount_low(c) == Min(c, MaxCount)

\* n = min(max(n, 1), 10)
ClampCount(c) == Min(Max(c, MinCount), MaxCount)

(* ---------------- requests ---------------- *)
Request(e, t, j, c) == [endpoint |-> e, path |-> t, json |-> j, count |-> c]

Requests ==
    { Request(e, <<>>, NoJson, <<>>) : e \in { "chart", "health", "unknown" } }
    \cup { Request(e, t, NoJson, <<>>) : e \in { "single", "full" }, t \in PathTickers }
    \cup { Request("news", t, NoJson, c) : t \in PathTickers, c \in CountTexts }
    \cup { Request("batch", <<>>, j, <<>>) : j \in JsonBodies }

(* ---------------- calls to the collaborators ---------------- *)
Call(g, ts, k, o) == [gw |-> g, tickers |-> ts, n |-> k, outcome |-> o]

Invoke_twice(cs, c) == Append(Append(cs, c), c)

\* one invocation of a collaborator, recorded in the order it happens
Invoke(cs, c) == Append(cs, c)

CallsTo(g) == { i \in DOMAIN calls : calls[i].gw = g }

(* ---------------- response bodies ---------------- *)
Timestamp == "isoformat"

Err(m, t, d) == [msg |-> m, ticker |-> t, detail |-> d]

Response(st, b) == [status |-> st, body |-> b]

\* @app.errorhandler(404)
not_found_error ==
    Response(404, [error |-> Err("Not Found", <<>>, ""),
                   message |-> "The requested resource was not found",
                   status |-> 404])


\* chart_data: return jsonify(data)
ChartOk(data) == Response(200, data)

\* chart_data: the except branch
ChartFail(e) ==
    Response(500, [error |-> Err("Failed to load chart data", <<>>, "")])

SingleNotFound_ok(t) ==
    Response(200, [error |-> Err("No financial data available, check the ticker symbol", t, "")])

\* company_analysis: ticker not in credit_results
SingleNotFound(t) ==
    Response(404, [error |-> Err("No financial data available, check the ticker symbol", t, "")])

\* company_analysis: response_data
SingleEnvelope(t, cr, bd) ==
    Response(200, [ticker |-> t, credit_scores |-> cr[t], breakdown |-> bd,
                   success |-> TRUE, timestamp |-> Timestamp])

SingleFail_payload(t, e) ==
    Response(500, [error |-> Err("Failed to analyze", t, e), ticker |-> t,
                   success |-> FALSE])

\* company_analysis: the except branch, f'Failed to analyze {ticker}: {str(e)}'
SingleFail(t, e) == Response(500, [error |-> Err("Failed to analyze", t, e)])

\* batch_analysis: the four 400 responses
BatchInvalid(m) == Response(400, [error |-> Err(m, <<>>, "")])

BatchTooLarge_valid(raw) ==
    Len(SelectSeq(raw, LAMBDA s : Truthy(Strip(s)))) > MaxBatch

\* batch_analysis: len(tickers) > 10, on the list as received
BatchTooLarge(raw) == Len(raw) > MaxBatch

RECURSIVE UpperStripAll(_)
UpperStripAll(raw) ==
    IF raw = <<>> THEN <<>>
    ELSE <<Strip(Upper(Head(raw)))>> \o UpperStripAll(Tail(raw))

\* batch_analysis: [ticker.upper().strip() for ticker in tickers if ticker.strip()]
NormalizeTickers(raw) ==
    UpperStripAll(SelectSeq(raw, LAMBDA s : Truthy(Strip(s))))

BatchEnvelope_requested(ts, cr, bd) ==
    Response(200, [results |-> cr, breakdown |-> bd,
                   processed_count |-> Len(ts),
                   requested_count |-> Len(ts),
                   success |-> TRUE, timestamp |-> Timestamp])

\* batch_analysis: the success body
BatchEnvelope(ts, cr, bd) ==
    Response(200, [results |-> cr, breakdown |-> bd,
                   processed_count |-> Cardinality(DOMAIN cr),
                   requested_count |-> Len(ts),
                   success |-> TRUE, timestamp |-> Timestamp])

\* batch_analysis: the except branch
BatchFail(e) == Response(500, [error |-> Err("Batch analysis failed", <<>>, "")])

\* get_news: the success body
NewsEnvelope(t, hl) ==
    Response(200, [ticker |-> t, headlines |-> hl, count |-> Len(hl),
                   success |-> TRUE, timestamp |-> Timestamp])

\* get_news: the except branch, f'Failed to fetch news for {ticker}: {str(e)}'
NewsFail(t, e) == Response(500, [error |-> Err("Failed to fetch news", t, e)])

\* company_analysis_full: ticker not in credit_results
FullNotFound(t) ==
    Response(404, [error |-> Err("No financial data available", t, "")])

\* company_analysis_full: response_data
FullEnvelope(t, cr, bd, hl) ==
    Response(200, [ticker |-> t, credit_scores |-> cr[t], breakdown |-> bd,
                   news |-> [headlines |-> hl, count |-> Len(hl)],
                   success |-> TRUE, timestamp |-> Timestamp])

FullFail_degraded(t, e) ==
    IF t \in DOMAIN credit_results /\ breakdown_data \in Breakdowns
      THEN Response(200, [ticker |-> t, credit_scores |-> credit_results[t],
                          breakdown |-> breakdown_data,
                          success |-> TRUE, timestamp |-> Timestamp])
      ELSE Response(500, [error |-> Err("Failed to analyze", t, e)])

\* company_analysis_full: the except branch
FullFail(t, e) == Response(500, [error |-> Err("Failed to analyze", t, e)])

\* health_check
HealthBody ==
    Response(200, [status |-> "healthy", timestamp |-> Timestamp,
                   version |-> "1.0.0"])

(* ---------------- the state machine ---------------- *)
Init ==
    /\ pc = "idle"
    /\ req = Request("health", <<>>, NoJson, <<>>)
    /\ ticker = <<>>
    /\ tickers = <<>>
    /\ n = 0
    /\ credit_results = EmptyMap
    /\ breakdown_data = NoBreakdown
    /\ headlines = <<>>
    /\ calls = <<>>
    /\ resp = NoResp
    /\ prev = NoResp

\* the locals of a handler before it runs
Fresh ==
    /\ ticker' = <<>>
    /\ tickers' = <<>>
    /\ n' = 0
    /\ credit_results' = EmptyMap
    /\ breakdown_data' = NoBreakdown
    /\ headlines' = <<>>
    /\ calls' = <<>>
    /\ resp' = NoResp

\* a request arrives and is routed to its handler
Arrive ==
    /\ pc = "idle"
    /\ \E r \in Requests : req' = r /\ pc' = r.endpoint
    /\ Fresh
    /\ prev' = NoResp

\* the client sends the same request again; prev keeps the earlier response
Resend ==
    /\ pc = "done"
    /\ pc' = req.endpoint
    /\ Fresh
    /\ prev' = resp
    /\ UNCHANGED req

\* the response has been sent; nothing of the request is kept
Finish ==
    /\ pc = "done"
    /\ pc' = "idle"
    /\ req' = Request("health", <<>>, NoJson, <<>>)
    /\ Fresh
    /\ prev' = NoResp

\* no route matches: the 404 error handler answers
unknown_route ==
    /\ pc = "unknown"
    /\ resp' = not_found_error
    /\ pc' = "done"
    /\ UNCHANGED << req, ticker, tickers, n, credit_results, breakdown_data,
                    headlines, calls, prev >>

health_check ==
    /\ pc = "health"
    /\ resp' = HealthBody
    /\ pc' = "done"
    /\ UNCHANGED << req, ticker, tickers, n, credit_results, breakdown_data,
                    headlines, calls, prev >>

chart_data ==
    /\ pc = "chart"
    /\ \/ \E b \in Breakdowns :
            /\ calls' = Invoke(calls, Call("breakdown", <<>>, 0, "returned"))
            /\ resp' = ChartOk(b)
       \/ \E e \in ExcTexts :
            /\ calls' = Invoke(calls, Call("breakdown", <<>>, 0, "raised"))
            /\ resp' = ChartFail(e)
    /\ pc' = "done"
    /\ UNCHANGED << req, ticker, tickers, n, credit_results, breakdown_data,
                    headlines, prev >>

\* company_analysis up to the 404 return
company_analysis_scores ==
    /\ pc = "single"
    /\ LET t == Upper(req.path) IN
        /\ ticker' = t
        /\ \/ \E m \in ScoreMappings :
                /\ calls' = Invoke(calls, Call("scoring", <<t>>, 0, "returned"))
                /\ credit_results' = m
                /\ IF t \notin DOMAIN m
                     THEN resp' = SingleNotFound(t) /\ pc' = "done"
                     ELSE resp' = resp /\ pc' = "single_breakdown"
           \/ \E e \in ExcTexts :
                /\ calls' = Invoke(calls, Call("scoring", <<t>>, 0, "raised"))
                /\ resp' = SingleFail(t, e)
                /\ pc' = "done"
                /\ UNCHANGED credit_results
    /\ UNCHANGED << req, tickers, n, breakdown_data, headlines, prev >>

\* company_analysis from get_score_breakdown_data() to the return
company_analysis_breakdown ==
    /\ pc = "single_breakdown"
    /\ \/ \E b \in Breakdowns :
            /\ calls' = Invoke(calls, Call("breakdown", <<>>, 0, "returned"))
            /\ breakdown_data' = b
            /\ resp' = SingleEnvelope(ticker, credit_results, b)
       \/ \E e \in ExcTexts :
            /\ calls' = Invoke(calls, Call("breakdown", <<>>, 0, "raised"))
            /\ resp' = SingleFail(ticker, e)
            /\ UNCHANGED breakdown_data
    /\ pc' = "done"
    /\ UNCHANGED << req, ticker, tickers, n, credit_results, headlines, prev >>


\* data.get('tickers', [])
RawTickers(j) == IF j.has THEN j.tickers ELSE <<>>

\* batch_analysis from request.get_json() to the last 400 return; cs is the
\* record of collaborator calls when the step ends
BatchValidateStep(cs) ==
    /\ pc = "batch"
    /\ calls' = cs
    /\ LET j == req.json
           raw == RawTickers(j)
           ts == NormalizeTickers(raw)
       IN  IF j.kind = "malformed"
             THEN \E e \in ExcTexts :
                    resp' = BatchFail(e) /\ pc' = "done" /\ UNCHANGED tickers
           ELSE IF j.kind \in { "null", "empty" }
             THEN /\ resp' = BatchInvalid("No JSON data provided")
                  /\ pc' = "done" /\ UNCHANGED tickers
           ELSE IF raw = <<>>
             THEN /\ resp' = BatchInvalid("No tickers provided")
                  /\ pc' = "done" /\ UNCHANGED tickers
           ELSE IF BatchTooLarge(raw)
             THEN /\ resp' = BatchInvalid("Maximum 10 tickers per batch")
                  /\ pc' = "done" /\ UNCHANGED tickers
           ELSE IF ts = <<>>
             THEN /\ resp' = BatchInvalid("No valid tickers provided")
                  /\ pc' = "done" /\ tickers' = ts
           ELSE /\ tickers' = ts /\ pc' = "batch_scores" /\ resp' = resp
    /\ UNCHANGED << req, ticker, n, credit_results, breakdown_data,
                    headlines, prev >>

batch_validate_eager ==
    BatchValidateStep(Invoke(calls,
        Call("scoring", RawTickers(req.json), 0, "returned")))

batch_validate == BatchValidateStep(calls)

\* batch_analysis: fetch_and_compute_credit_scores(tickers)
batch_scores ==
    /\ pc = "batch_scores"
    /\ \/ \E m \in ScoreMappings :
            /\ calls' = Invoke(calls, Call("scoring", tickers, 0, "returned"))
            /\ credit_results' = m
            /\ resp' = resp
            /\ pc' = "batch_breakdown"
       \/ \E e \in ExcTexts :
            /\ calls' = Invoke(calls, Call("scoring", tickers, 0, "raised"))
            /\ resp' = BatchFail(e)
            /\ pc' = "done"
            /\ UNCHANGED credit_results
    /\ UNCHANGED << req, ticker, tickers, n, breakdown_data, headlines, prev >>

\* batch_analysis from get_score_breakdown_data() to the return
batch_breakdown ==
    /\ pc = "batch_breakdown"
    /\ \/ \E b \in Breakdowns :
            /\ calls' = Invoke(calls, Call("breakdown", <<>>, 0, "returned"))
            /\ breakdown_data' = b
            /\ resp' = BatchEnvelope(tickers, credit_results, b)
       \/ \E e \in ExcTexts :
            /\ calls' = Invoke(calls, Call("breakdown", <<>>, 0, "raised"))
            /\ resp' = BatchFail(e)
            /\ UNCHANGED breakdown_data
    /\ pc' = "done"
    /\ UNCHANGED << req, ticker, tickers, n, credit_results, headlines, prev >>

get_news ==
    /\ pc = "news"
    /\ LET t == Upper(req.path)
           k == ClampCount(CountArg(req.count))
       IN  /\ ticker' = t
           /\ n' = k
           /\ \/ \E hl \in HeadlineLists :
                   /\ calls' = Invoke(calls, Call("news", <<t>>, k, "returned"))
                   /\ headlines' = hl
                   /\ resp' = NewsEnvelope(t, hl)
              \/ \E e \in ExcTexts :
                   /\ calls' = Invoke(calls, Call("news", <<t>>, k, "raised"))
                   /\ resp' = NewsFail(t, e)
                   /\ UNCHANGED headlines
    /\ pc' = "done"
    /\ UNCHANGED << req, tickers, credit_results, breakdown_data, prev >>

\* company_analysis_full up to the 404 return
full_scores ==
    /\ pc = "full"
    /\ LET t == Upper(req.path) IN
        /\ ticker' = t
        /\ \/ \E m \in ScoreMappings :
                /\ calls' = Invoke(calls, Call("scoring", <<t>>, 0, "returned"))
                /\ credit_results' = m
                /\ IF t \notin DOMAIN m
                     THEN resp' = FullNotFound(t) /\ pc' = "done"
                     ELSE resp' = resp /\ pc' = "full_breakdown"
           \/ \E e \in ExcTexts :
                /\ calls' = Invoke(calls, Call("scoring", <<t>>, 0, "raised"))
                /\ resp' = FullFail(t, e)
                /\ pc' = "done"
                /\ UNCHANGED credit_results
    /\ UNCHANGED << req, tickers, n, breakdown_data, headlines, prev >>

\* company_analysis_full: get_score_breakdown_data()
full_breakdown ==
    /\ pc = "full_breakdown"
    /\ \/ \E b \in Breakdowns :
            /\ calls' = Invoke(calls, Call("breakdown", <<>>, 0, "returned"))
            /\ breakdown_data' = b
            /\ resp' = resp
            /\ pc' = "full_news"
       \/ \E e \in ExcTexts :
            /\ calls' = Invoke(calls, Call("breakdown", <<>>, 0, "raised"))
            /\ resp' = FullFail(ticker, e)
            /\ pc' = "done"
            /\ UNCHANGED breakdown_data
    /\ UNCHANGED << req, ticker, tickers, n, credit_results, headlines, prev >>

\* company_analysis_full from top_headlines(ticker, n=5) to the return
full_news ==
    /\ pc = "full_news"
    /\ \/ \E hl \in HeadlineLists :
            /\ calls' = Invoke(calls, Call("news", <<ticker>>, FullCount, "returned"))
            /\ headlines' = hl
            /\ resp' = FullEnvelope(ticker, credit_results, breakdown_data, hl)
       \/ \E e \in ExcTexts :
            /\ calls' = Invoke(calls, Call("news", <<ticker>>, FullCount, "raised"))
            /\ resp' = FullFail(ticker, e)
            /\ UNCHANGED headlines
    /\ pc' = "done"
    /\ UNCHANGED << req, ticker, tickers, n, credit_results, breakdown_data, prev >>

Next ==
    \/ Arrive
    \/ Resend
    \/ Finish
    \/ unknown_route
    \/ health_check
    \/ chart_data
    \/ company_analysis_scores
    \/ company_analysis_breakdown
    \/ batch_validate
    \/ batch_scores
    \/ batch_breakdown
    \/ get_news
    \/ full_scores
    \/ full_breakdown
    \/ full_news

Spec == Init /\ [][Next]_vars

TypeOK ==
    /\ pc \in { "idle", "done", "unknown", "health", "chart", "single",
                "single_breakdown", "batch", "batch_scores", "batch_breakdown",
                "news", "full", "full_breakdown", "full_news" }
    /\ req \in Requests
    /\ credit_results \in ScoreMappings
    /\ n \in 0..MaxCount
    /\ resp.status \in { 0, 200, 400, 404, 500 }


(* ======================= the claims ======================= *)
AtDone == pc = "done"

Returned(g) == \E i \in DOMAIN calls : calls[i].gw = g /\ calls[i].outcome = "returned"

Raised(g) == \E i \in DOMAIN calls : calls[i].gw = g /\ calls[i].outcome = "raised"

HasTickers == req.endpoint = "batch" /\ req.json.kind = "object" /\ req.json.has

NonBlank(raw) == { i \in DOMAIN raw : Strip(raw[i]) # <<>> }

\* C1: a batch request whose raw 'tickers' list has more than 10 entries is
\* answered 400 "Maximum 10 tickers per batch" and never goes past
\* validation, whatever the entries are.
C1_BatchCapOnRawLength ==
    (HasTickers /\ Len(req.json.tickers) > MaxBatch) =>
        /\ pc \in { "batch", "done" }
        /\ AtDone => resp = BatchInvalid("Maximum 10 tickers per batch")

\* an 11-entry list with a blank in it (10 valid entries) has been rejected
C1_Witness ==
    /\ AtDone /\ HasTickers
    /\ Len(req.json.tickers) = MaxBatch + 1
    /\ Cardinality(NonBlank(req.json.tickers)) = MaxBatch
    /\ resp.status = 400

RECURSIVE DedupFirstSeen(_)
DedupFirstSeen(s) ==
    IF s = <<>> THEN <<>>
    ELSE <<Head(s)>> \o DedupFirstSeen(SelectSeq(Tail(s), LAMBDA x : x # Head(s)))

RECURSIVE TrimDropUpper(_)
TrimDropUpper(raw) ==
    IF raw = <<>> THEN <<>>
    ELSE (IF Strip(Head(raw)) = <<>> THEN <<>> ELSE <<Upper(Strip(Head(raw)))>>)
         \o TrimDropUpper(Tail(raw))

\* C2: the ticker sequence handed to the Scoring Gateway by a batch request
\* (and counted as requested_count) is the raw list trimmed, blanks dropped,
\* uppercased and de-duplicated keeping first-seen order.
C2_NormalizedDeduplicated ==
    req.endpoint = "batch" =>
        /\ \A i \in CallsTo("scoring") :
              calls[i].tickers = DedupFirstSeen(TrimDropUpper(req.json.tickers))
        /\ (AtDone /\ resp.status = 200) =>
              resp.body.requested_count =
                  Len(DedupFirstSeen(TrimDropUpper(req.json.tickers)))

C4_NotFoundIs404 ==
    (AtDone /\ req.endpoint \in { "single", "full" } /\ Returned("scoring")) =>
        /\ Upper(req.path) \notin DOMAIN credit_results =>
              /\ resp.status = 404
              /\ "error" \in DOMAIN resp.body
              /\ "success" \notin DOMAIN resp.body
        /\ resp.status = 200 =>
              /\ Upper(req.path) \in DOMAIN credit_results
              /\ resp.body.credit_scores = credit_results[Upper(req.path)]

\* a lowercase ticker missing from a non-empty mapping has been answered 404
C4_Witness ==
    /\ AtDone /\ req.endpoint = "single" /\ req.path = <<"a">>
    /\ Returned("scoring")
    /\ DOMAIN credit_results = { <<"M">> }
    /\ resp.status = 404

ExpectedCount(c) == IF c < 1 THEN 1 ELSE IF c > 10 THEN 10 ELSE c

\* C5: the count passed to the News Gateway is min(max(count, 1), 10) for
\* every integer count, 3 when the argument is absent, hence in 1..10, and
\* the request is never refused because of its count.
C5_CountClamped ==
    (AtDone /\ req.endpoint = "news") =>
        /\ Len(calls) = 1
        /\ calls[1].gw = "news"
        /\ calls[1].n \in 1..10
        /\ \A c \in CountValues :
              req.count = IntText(c) => calls[1].n = ExpectedCount(c)
        /\ req.count = <<>> => calls[1].n = 3
        /\ resp.status \in { 200, 500 }
        /\ resp.status = 500 => Raised("news")

\* count=-5 has been passed on as 1
C5_Witness ==
    /\ AtDone /\ req.endpoint = "news" /\ req.count = <<"-", "5">>
    /\ calls[1].n = 1 /\ resp.status = 200

PayloadKeys ==
    { "ticker", "credit_scores", "breakdown", "results", "processed_count",
      "requested_count", "headlines", "count", "news", "success" }

IsSuccessBody(b) ==
    /\ "success" \in DOMAIN b
    /\ b.success = TRUE
    /\ "error" \notin DOMAIN b

IsErrorBody(b) == "error" \in DOMAIN b /\ DOMAIN b \cap PayloadKeys = {}

\* C6 as stated: every response body of every endpoint is either a success
\* payload with success: true or an error body without payload.
C6_EveryBodyExclusive ==
    AtDone => (IsSuccessBody(resp.body) \/ IsErrorBody(resp.body))

\* C6 amended: the bodies of the single, batch, news and full endpoints, and
\* every error body (chart-data's 500 and the 404 handler's included), are
\* either a success payload with success: true (exactly the 200 responses)
\* or an error body without payload, never both; the 200 body of chart-data
\* is the Breakdown as returned and the health body is
\* {status, timestamp, version}: these two carry neither flag.
C6_EnvelopeExclusive ==
    AtDone =>
        IF req.endpoint = "health" \/ (req.endpoint = "chart" /\ resp.status = 200)
          THEN /\ ~ IsSuccessBody(resp.body)
               /\ ~ IsErrorBody(resp.body)
               /\ resp.status = 200
          ELSE /\ IsSuccessBody(resp.body) # IsErrorBody(resp.body)
               /\ IsSuccessBody(resp.body) <=> resp.status = 200

\* a news success envelope, flagged success and without error
C6_Witness ==
    /\ AtDone /\ req.endpoint = "news" /\ resp.status = 200
    /\ IsSuccessBody(resp.body)

\* C7: a batch request answered 400 has called no collaborator.
C7_ValidationBeforeGateways ==
    (AtDone /\ req.endpoint = "batch" /\ resp.status = 400) => calls = <<>>

\* an all-blank list has been refused, with no call made
C7_Witness ==
    /\ AtDone /\ HasTickers /\ Len(req.json.tickers) = 2
    /\ resp = BatchInvalid("No valid tickers provided")

\* C8: two runs of the same request that both end in a 500 return the same
\* body, whatever the texts of the exceptions.
C8_Stable500Body ==
    (AtDone /\ resp.status = 500 /\ prev.status = 500) => resp.body = prev.body

\* C9: a full request whose scores resolved and whose news call raised is
\* answered with a 500 error body, never with a (partial) success envelope.
C9_NewsFailureFailsAll ==
    (AtDone /\ req.endpoint = "full" /\ Raised("news")) =>
        /\ Returned("scoring")
        /\ Upper(req.path) \in DOMAIN credit_results
        /\ resp.status = 500
        /\ IsErrorBody(resp.body)

\* scores and breakdown were fetched, then the news call raised
C9_Witness ==
    /\ AtDone /\ req.endpoint = "full" /\ Raised("news")
    /\ Returned("breakdown") /\ resp.status = 500

\* C10: within one request each collaborator is called at most once and
\* nothing is called after a call raised; a single, batch or full request
\* answered with a success envelope has called the Breakdown Provider
\* exactly once and embeds the value it returned.
C10_CallsAtMostOnce ==
    /\ \A g \in { "scoring", "breakdown", "news" } : Cardinality(CallsTo(g)) <= 1
    /\ \A i \in DOMAIN calls : calls[i].outcome = "raised" => i = Len(calls)
    /\ (AtDone /\ resp.status = 200 /\ req.endpoint \in { "single", "batch", "full" }) =>
          /\ Cardinality(CallsTo("breakdown")) = 1
          /\ Returned("breakdown")
          /\ breakdown_data \in Breakdowns
          /\ resp.body.breakdown = breakdown_data

\* a full success envelope after three calls
C10_Witness ==
    /\ AtDone /\ req.endpoint = "full" /\ resp.status = 200
    /\ Len(calls) = 3

====
